---- MODULE Spec2Model ----
(***************************************************************************)
(* Model of the wrt automation workflow (.ai/flows, .ai/nodes): the graph  *)
(* plan -> code -> validate -> (code | pr) -> END, the four node           *)
(* operations and the side effects they have on the working tree, the      *)
(* version-control index and history, the run logs and the tracker.        *)
(*                                                                         *)
(* Text on which the code computes (ticket, task, branch) is a sequence of *)
(* characters; names that are only compared (crate, check names, labels)   *)
(* are strings.  A Python dict is a function whose domain is its key set.  *)
(***************************************************************************)
EXTENDS Integers, Sequences, FiniteSets, TLC

VARIABLES
    pc,        \* node the Engine visits next: a node name, END or "aborted"
    state,     \* the Run State dict threaded through the graph
    env,       \* process environment (os.environ), fixed for the run
    issue,     \* the tracker's issue for the ticket: its labels
    trace,     \* sequence of node visits so far
    greens,    \* value of green produced by each completed Validator visit
    inp,       \* what the collaborators answered during the last node visit
    delta,     \* keys (with values) the last node wrote in its return expression
    effects,   \* side effects of the last node visit, in order
    tree,      \* working tree: path -> lines, or Absent
    index,     \* staged snapshot of the tree
    commits,   \* history: sequence of [msg, tree]
    logs,      \* run logs written: set of <<ticket, crate, check>>
    prs,       \* open pull requests of the head branch, as the tracker lists them
    ghCalls,   \* tracker writes issued by the Publisher, in order
    coders,    \* Coder visits of runs that share the checkout, step by step
    requests   \* generation requests the Coder has sent, in order

vars == <<pc, state, env, issue, trace, greens, inp, delta, effects,
          tree, index, commits, logs, prs, ghCalls, coders, requests>>

(***************************************************************************)
(* Bounds                                                                  *)
(***************************************************************************)
MaxIter == 3        \* Coder visits explored per run
MaxPrCalls == 3     \* Publisher invocations explored for one branch

(***************************************************************************)
(* Generic helpers                                                         *)
(***************************************************************************)
Range(s) == {s[i] : i \in DOMAIN s}

Min(a, b) == IF a < b THEN a ELSE b

Max(a, b) == IF a > b THEN a ELSE b

Count(n, s) == Cardinality({i \in DOMAIN s : s[i] = n})

\* dict.get(key, default)
Get(d, k, default) == IF k \in DOMAIN d THEN d[k] ELSE default

\* DictSpread with the spread last ({k1: v1, ..., **d}): d keeps its values
DictSpreadKeep(d, kv) ==
    [k \in DOMAIN d \cup DOMAIN kv |-> IF k \in DOMAIN d THEN d[k] ELSE kv[k]]

\* DictSpread without the spread: the listed items alone
DictSpreadOnly(d, kv) == kv

\* {**d, k1: v1, ...}: the spread dict with the listed items written over it
DictSpread(d, kv) ==
    [k \in DOMAIN d \cup DOMAIN kv |-> IF k \in DOMAIN kv THEN kv[k] ELSE d[k]]

EmptyDict == [k \in {} |-> FALSE]

(***************************************************************************)
(* Environment                                                             *)
(***************************************************************************)
Unset == [set |-> FALSE, val |-> <<>>]

SetTo(s) == [set |-> TRUE, val |-> s]

\* os.getenv(name, default)
Getenv(name, default) == IF env[name].set THEN env[name].val ELSE default

Digits == {"0", "1", "2", "3", "4", "5", "6", "7", "8", "9"}

\* int(s) succeeds on a non-empty digit string, and raises ValueError otherwise
IsInt(s) == Len(s) > 0 /\ \A i \in 1..Len(s) : s[i] \in Digits

T42 == <<"4", "2">>

TLocal == <<"l", "o", "c", "a", "l">>

TZero == <<"0">>

OwnerRepo == <<"o", "/", "r">>

HeadRef == <<"t", "o", "p", "i", "c">>

(***************************************************************************)
(* flows/*_flow.py: the initial Run State                                  *)
(***************************************************************************)
CMD_KEYS == <<"std_build", "nostd_build", "test", "clippy">>

END == "END"

\* A profile of config/ai.toml: the crate (when given) and a command for the
\* checks in C; the other checks are left out, or given an empty command.
Profile(hasCrate, C, emptyCmds) ==
    [k \in (IF hasCrate THEN {"crate"} ELSE {}) \cup C
            \cup (IF emptyCmds THEN Range(CMD_KEYS) ELSE {}) |->
        IF k = "crate" THEN "wrt-decoder" ELSE IF k \in C THEN "cmd" ELSE ""]

\* every profile: with each set of configured checks, with and without crate
Profiles ==
    {Profile(hasCrate, C, emptyCmds) :
        hasCrate \in BOOLEAN, C \in SUBSET Range(CMD_KEYS), emptyCmds \in BOOLEAN}

DefaultProfile == Profile(TRUE, {"test"}, FALSE)

\* the profiles whole runs are explored with
RunProfiles ==
    {DefaultProfile,
     Profile(FALSE, {"test"}, FALSE),
     Profile(TRUE, {}, FALSE),
     Profile(TRUE, {}, TRUE),
     Profile(TRUE, {"std_build", "nostd_build"}, TRUE)}

MkEnv(repo, tok, ref, ticket) ==
    [GITHUB_REPOSITORY |-> repo, GH_TOKEN |-> tok,
     GITHUB_HEAD_REF |-> ref, TICKET |-> ticket]

Envs ==
    {MkEnv(Unset, Unset, Unset, Unset),
     MkEnv(Unset, Unset, Unset, SetTo(T42)),
     MkEnv(SetTo(OwnerRepo), Unset, Unset, SetTo(T42)),
     MkEnv(Unset, SetTo(<<"t">>), Unset, SetTo(T42)),
     MkEnv(SetTo(OwnerRepo), SetTo(<<"t">>), Unset, Unset),
     MkEnv(SetTo(OwnerRepo), SetTo(<<"t">>), Unset, SetTo(T42)),
     MkEnv(SetTo(OwnerRepo), SetTo(<<"t">>), SetTo(HeadRef), SetTo(T42))}

\* label lists the tracker may hold for the ticket
Issues == {[labels |-> <<>>], [labels |-> <<"bug", "docs">>]}

\* open requests of the head branch before the run
OpenRequests == {<<>>, <<7, 9>>}

\* the surroundings of a run: environment, and what the tracker holds (as far
\* as the environment lets the run see it)
Worlds ==
    {[env |-> e, issue |-> i, prs |-> o] :
        e \in Envs, i \in Issues, o \in OpenRequests}

Visible(w) ==
    /\ w.env.GH_TOKEN.set \/ w.issue.labels = <<>>
    /\ (w.env.GH_TOKEN.set /\ w.env.GITHUB_REPOSITORY.set) \/ w.prs = <<>>

DefaultWorld ==
    [env |-> MkEnv(SetTo(OwnerRepo), SetTo(<<"t">>), Unset, SetTo(T42)),
     issue |-> [labels |-> <<"bug", "docs">>], prs |-> <<>>]

\* runs explored: every world with the default profile, and every run
\* profile in the default world
Setups ==
    {[world |-> w, cfg |-> DefaultProfile] : w \in {v \in Worlds : Visible(v)}}
    \cup {[world |-> DefaultWorld, cfg |-> c] : c \in RunProfiles}

Tree0 == [p \in {"a.rs"} |-> <<"l1", "l2", "l3">>]

\* state = {"ticket": os.getenv("TICKET", "local"), **cfg}
InitialState(e, cfg) ==
    DictSpread([k \in {"ticket"} |-> IF e.TICKET.set THEN e.TICKET.val ELSE TLocal], cfg)

NoInput == [node |-> "none"]

\* everything but the Run State and the Engine's position
Outset(w) ==
    /\ env = w.env
    /\ issue = w.issue
    /\ prs = w.prs
    /\ greens = <<>>
    /\ inp = NoInput
    /\ delta = EmptyDict
    /\ effects = <<>>
    /\ tree = Tree0
    /\ index = Tree0
    /\ commits = <<>>
    /\ logs = {}
    /\ ghCalls = <<>>
    /\ coders = <<>>
    /\ requests = <<>>

Init ==
    \E u \in Setups :
        /\ Outset(u.world)
        /\ state = InitialState(u.world.env, u.cfg)
        /\ pc = "plan"
        /\ trace = <<>>

(***************************************************************************)
(* flows/base_dag.py: the graph, and the Engine that walks it              *)
(***************************************************************************)
\* NextNode with the conditional edge dropped: validate always leads on to pr
NextNodeNoLoop(node, s) ==
    CASE node = "plan" -> "code"
      [] node = "code" -> "validate"
      [] node = "validate" -> "pr"
      [] node = "pr" -> END

\* NextNode with the targets of the conditional edge exchanged
NextNodeInverted(node, s) ==
    CASE node = "plan" -> "code"
      [] node = "code" -> "validate"
      [] node = "validate" -> IF ~Get(s, "green", FALSE) THEN "pr" ELSE "code"
      [] node = "pr" -> END

\* NextNode with the loop closed on validate instead of code
NextNodeRevalidate(node, s) ==
    CASE node = "plan" -> "code"
      [] node = "code" -> "validate"
      [] node = "validate" -> IF ~Get(s, "green", FALSE) THEN "validate" ELSE "pr"
      [] node = "pr" -> END

\* NextNode that gives up after the third red Validator visit
NextNodeCapped(node, s) ==
    CASE node = "plan" -> "code"
      [] node = "code" -> "validate"
      [] node = "validate" ->
            IF ~Get(s, "green", FALSE) /\ Count("validate", trace) < 2 THEN "code" ELSE "pr"
      [] node = "pr" -> END

\* NextNode with the red edge of validate leading back to plan
NextNodeReplan(node, s) ==
    CASE node = "plan" -> "code"
      [] node = "code" -> "validate"
      [] node = "validate" -> IF ~Get(s, "green", FALSE) THEN "plan" ELSE "pr"
      [] node = "pr" -> END

\* NextNode with the green edge of validate leading to END, past pr
NextNodeSkipPr(node, s) ==
    CASE node = "plan" -> "code"
      [] node = "code" -> "validate"
      [] node = "validate" -> IF ~Get(s, "green", FALSE) THEN "code" ELSE END
      [] node = "pr" -> END

\* the edges out of each node; the conditional edge reads the state given
NextNode(node, s) ==
    CASE node = "plan" -> "code"
      [] node = "code" -> "validate"
      [] node = "validate" -> IF ~Get(s, "green", FALSE) THEN "code" ELSE "pr"
      [] node = "pr" -> END

\* Engine step (b): the fields of the node's result overwrite the state's
Merge(s, d) == [k \in DOMAIN s \cup DOMAIN d |-> IF k \in DOMAIN d THEN d[k] ELSE s[k]]

\* Engine steps (b)-(d) after node returned ret
Returned(node, ret) ==
    /\ state' = Merge(state, ret)
    /\ pc' = NextNode(node, state')
    /\ trace' = Append(trace, node)

\* the node raised: the run ends without a final state
Raised(node) ==
    /\ pc' = "aborted"
    /\ trace' = Append(trace, node)
    /\ UNCHANGED <<state, delta>>

(***************************************************************************)
(* nodes/plan_node.py                                                      *)
(***************************************************************************)
\* JSON values as json.loads returns them: a tag, the items of a list (of a
\* dict: the value of its "tasks" key, when it has one) and the text of a str
J(t, items, text) == [t |-> t, items |-> items, s |-> text]

JNull == J("null", <<>>, <<>>)

JNum == J("num", <<>>, <<>>)

JStr(text) == J("str", <<>>, text)

JList(items) == J("list", items, <<>>)

JObj(tasks) == J("dict", tasks, <<>>)

TaskA == <<"a", "\n", "b">>

TaskB == <<"c">>

LLMFailed == <<"(", "L", "L", "M", " ", "f", "a", "i", "l", "e", "d", ")">>

\* what _chat can do: raise, or return a text that is JSON or is not
PlanReplies ==
    {[kind |-> "raise", val |-> JNull],
     [kind |-> "garbage", val |-> JNull],
     [kind |-> "json", val |-> JNum],
     [kind |-> "json", val |-> JList(<<JStr(TaskA)>>)],
     [kind |-> "json", val |-> JObj(<<>>)],
     [kind |-> "json", val |-> JObj(<<JList(<<JStr(TaskA), JStr(TaskB)>>)>>)],
     [kind |-> "json", val |-> JObj(<<JList(<<>>)>>)],
     [kind |-> "json", val |-> JObj(<<JList(<<JNum>>)>>)],
     [kind |-> "json", val |-> JObj(<<JStr(TaskB)>>)],
     [kind |-> "json", val |-> JObj(<<JNull>>)]}

NoReply == [kind |-> "none", val |-> JNull]

\* _body(issue): the ticket body, fetched when repository and token are set
_body(ticket, trackerOk) ==
    IF env.GITHUB_REPOSITORY.set /\ env.GITHUB_REPOSITORY.val # <<>>
       /\ env.GH_TOKEN.set /\ env.GH_TOKEN.val # <<>>
    THEN IF IsInt(ticket) /\ trackerOk
         THEN [raised |-> FALSE, val |-> "body"]
         ELSE [raised |-> TRUE, val |-> ""]
    ELSE [raised |-> FALSE, val |-> "(local)"]

\* json.loads(_chat(...))["tasks"] inside try/except Exception
Tasks(r) ==
    IF r.kind = "json" /\ r.val.t = "dict" /\ r.val.items # <<>>
    THEN r.val.items[1]
    ELSE JList(<<JStr(LLMFailed)>>)

\* plan_node(state, env): the dict it returns, unless _body raised
plan_node(s, trackerOk, r) ==
    LET body == _body(Get(s, "ticket", TZero), trackerOk)
    IN  IF body.raised
        THEN [raised |-> TRUE, body |-> body, reply |-> NoReply,
              delta |-> EmptyDict, ret |-> s]
        ELSE [raised |-> FALSE, body |-> body, reply |-> r,
              delta |-> [k \in {"plan"} |-> Tasks(r)],
              ret |-> DictSpread(s, [k \in {"plan"} |-> Tasks(r)])]

PlanVisit ==
    /\ pc = "plan"
    /\ \E trackerOk \in BOOLEAN, r \in PlanReplies :
         LET out == plan_node(state, trackerOk, r)
         IN  /\ inp' = [node |-> "plan", body |-> out.body, reply |-> out.reply]
             /\ IF out.raised
                THEN Raised("plan")
                ELSE Returned("plan", out.ret) /\ delta' = out.delta
    /\ effects' = <<>>
    /\ UNCHANGED <<coders, requests, env, issue, greens, tree, index, commits, logs, prs,
                   ghCalls>>

(***************************************************************************)
(* nodes/code_node.py                                                      *)
(***************************************************************************)
\* The completion is a sequence of tokens: the opening and the closing diff
\* tag, whitespace, other text, and the file entries PatchSet finds in it.
Tok(k) == [k |-> k, path |-> "", removed |-> FALSE, hunks |-> <<>>]

FileTok(path, removed, hunks) ==
    [k |-> "file", path |-> path, removed |-> removed, hunks |-> hunks]

HLine(t, value) == [t |-> t, value |-> value]

Hunk(start, length, lines) ==
    [source_start |-> start, source_length |-> length, lines |-> lines]

\* @@ -1,3 +1,3 @@ replacing l2 by x2 in a.rs
ModifyA ==
    FileTok("a.rs", FALSE,
            <<Hunk(1, 3, <<HLine(" ", "l1"), HLine("-", "l2"),
                           HLine("+", "x2"), HLine(" ", "l3")>>)>>)

\* @@ -0,0 +1,2 @@ creating b.rs
CreateB == FileTok("b.rs", FALSE, <<Hunk(0, 0, <<HLine("+", "n1"), HLine("+", "n2")>>)>>)

RemoveA == FileTok("a.rs", TRUE, <<Hunk(1, 3, <<HLine("-", "l1"), HLine("-", "l2"), HLine("-", "l3")>>)>>)

Completions ==
    {<<>>,
     <<Tok("text")>>,
     <<Tok("ws"), Tok("ws")>>,
     <<Tok("open"), Tok("ws"), Tok("close")>>,
     <<Tok("text"), Tok("open"), Tok("close"), Tok("text")>>,
     <<Tok("open"), ModifyA, Tok("close")>>,
     <<Tok("open"), ModifyA, Tok("close"), Tok("open"), Tok("ws"), Tok("close")>>,
     <<Tok("text"), Tok("open"), Tok("ws"), RemoveA, CreateB, Tok("close"), Tok("ws")>>}

\* positions of the tokens of kind k
Positions(txt, k) == {i \in 1..Len(txt) : txt[i].k = k}

SetMax(S) == CHOOSE x \in S : \A y \in S : y <= x

SetMin(S) == CHOOSE x \in S : \A y \in S : x <= y

\* txt.split("<diff>")[-1]: what follows the last opening tag
AfterLastOpen(txt) ==
    IF Positions(txt, "open") = {} THEN txt
    ELSE SubSeq(txt, SetMax(Positions(txt, "open")) + 1, Len(txt))

\* txt.split("</diff>")[0]: what precedes the first closing tag
BeforeFirstClose(txt) ==
    IF Positions(txt, "close") = {} THEN txt
    ELSE SubSeq(txt, 1, SetMin(Positions(txt, "close")) - 1)

ExtractDiff(completion) == BeforeFirstClose(AfterLastOpen(completion))

\* Strip left out: the text as it is
StripNone(d) == d

\* Strip that leaves nothing of any diff
StripAll(d) == <<>>

\* diff.strip(): the text without its leading and trailing whitespace
Strip(d) ==
    LET solid == {i \in 1..Len(d) : d[i].k # "ws"}
    IN  IF solid = {} THEN <<>> ELSE SubSeq(d, SetMin(solid), SetMax(solid))

\* PatchSet(patch): the file entries, in order
PatchSet(d) == SelectSeq(d, LAMBDA t : t.k = "file")

\* a slice bound as Python normalises it for a list of length n
SliceIdx(i, n) == IF i < 0 THEN Max(i + n, 0) ELSE Min(i, n)

\* [l.value for l in h]
HunkValues(h) == [i \in 1..Len(h.lines) |-> h.lines[i].value]

\* lines[h.source_start-1 : h.source_start-1+h.source_length] = [l.value for l in h]
ApplyHunk(lines, h) ==
    LET lo == SliceIdx(h.source_start - 1, Len(lines))
        hi == Max(SliceIdx(h.source_start - 1 + h.source_length, Len(lines)), lo)
    IN  SubSeq(lines, 1, lo) \o HunkValues(h) \o SubSeq(lines, hi + 1, Len(lines))

RECURSIVE ApplyHunks(_, _)
ApplyHunks(lines, hs) ==
    IF hs = <<>> THEN lines ELSE ApplyHunks(ApplyHunk(lines, Head(hs)), Tail(hs))

Ev(op, path) == [op |-> op, path |-> path]

\* one iteration of the loop of _apply over a file entry
ApplyFile(t, pf) ==
    IF pf.removed
    THEN [p \in DOMAIN t \ {pf.path} |-> t[p]]
    ELSE [p \in DOMAIN t \cup {pf.path} |->
            IF p = pf.path
            THEN ApplyHunks(IF p \in DOMAIN t THEN t[p] ELSE <<>>, pf.hunks)
            ELSE t[p]]

FileEffect(pf) == IF pf.removed THEN Ev("unlink", pf.path) ELSE Ev("write", pf.path)

RECURSIVE ApplyFiles(_, _)
ApplyFiles(t, pfs) ==
    IF pfs = <<>> THEN t ELSE ApplyFiles(ApplyFile(t, Head(pfs)), Tail(pfs))

\* _apply staging before it writes the files
_applyStageFirst(t, patch) ==
    LET pfs == PatchSet(patch)
    IN  [tree |-> ApplyFiles(t, pfs),
         effects |-> <<Ev("add", "")>> \o [i \in 1..Len(pfs) |-> FileEffect(pfs[i])]]

\* _apply(patch): the tree it leaves, which it then stages
_apply(t, patch) ==
    LET pfs == PatchSet(patch)
    IN  [tree |-> ApplyFiles(t, pfs),
         effects |-> [i \in 1..Len(pfs) |-> FileEffect(pfs[i])] \o <<Ev("add", "")>>]

label2type ==
    [l \in {"feat", "fix", "bug", "refactor", "docs", "test"} |->
        CASE l = "feat" -> "feat"
          [] l = "fix" -> "fix"
          [] l = "bug" -> "fix"
          [] l = "refactor" -> "refactor"
          [] l = "docs" -> "docs"
          [] l = "test" -> "test"]

\* Lower that leaves the name as it is
LowerNone(l) == l

\* lab.name.lower() on the label names of the model
Lower(l) ==
    CASE l = "Fix" -> "fix"
      [] l = "BUG" -> "bug"
      [] l = "Docs" -> "docs"
      [] OTHER -> l

\* CommitType with a label outside the table setting the type back to chore
RECURSIVE CommitTypeReset(_, _)
CommitTypeReset(labels, ctype) ==
    IF labels = <<>> THEN ctype
    ELSE CommitTypeReset(Tail(labels), Get(label2type, Lower(Head(labels)), "chore"))

\* for lab in issue.labels: ctype = label2type.get(lab.name.lower(), ctype)
RECURSIVE CommitType(_, _)
CommitType(labels, ctype) ==
    IF labels = <<>> THEN ctype
    ELSE CommitType(Tail(labels), Get(label2type, Lower(Head(labels)), ctype))

SubjLen == 50

\* Subject without the cut at 50 characters
SubjectUncut(text) ==
    [i \in 1..Len(text) |-> IF text[i] \in {"\n", "\r"} THEN " " ELSE text[i]]

\* re.sub(r"[\r\n]", " ", text)[:50]
Subject(text) ==
    LET flat == [i \in 1..Len(text) |-> IF text[i] \in {"\n", "\r"} THEN " " ELSE text[i]]
    IN  SubSeq(flat, 1, Min(SubjLen, Len(flat)))

\* plan[0] of a list, or of a str, when there is one
HasFirst(plan) == IF plan.t = "str" THEN plan.s # <<>> ELSE plan.items # <<>>

First(plan) == IF plan.t = "str" THEN <<plan.s[1]>> ELSE plan.items[1].s

\* '\n'.join(plan) succeeds on a str and on a list of str
Joinable(plan) ==
    \/ plan.t = "str"
    \/ plan.t = "list" /\ \A i \in 1..Len(plan.items) : plan.items[i].t = "str"

\* the texts joined with a line feed between them
RECURSIVE JoinLines(_)
JoinLines(texts) ==
    IF texts = <<>> THEN <<>>
    ELSE IF Len(texts) = 1 THEN texts[1]
    ELSE texts[1] \o <<"\n">> \o JoinLines(Tail(texts))

\* '\n'.join(plan): of the entries of a list, of the characters of a str
JoinPlan(plan) ==
    IF plan.t = "str"
    THEN JoinLines([i \in 1..Len(plan.s) |-> <<plan.s[i]>>])
    ELSE JoinLines([i \in 1..Len(plan.items) |-> plan.items[i].s])

\* the prompt: DIFF_PROMPT.format(plan='\n'.join(plan), crate=crate)
RequestOf(plan, crate) == [plan |-> JoinPlan(plan), crate |-> crate]

\* Request with the checks that failed last added to the prompt
RequestFeedback(s) ==
    [plan |-> JoinPlan(s["plan"]) \o Get(s, "validate_failed", <<>>), crate |-> s["crate"]]

\* the request code_node sends for the Run State s
Request(s) == RequestOf(s["plan"], s["crate"])

\* code_node gets as far as the request: plan and crate are there and join
Sends(s) == "plan" \in DOMAIN s /\ "crate" \in DOMAIN s /\ Joinable(s["plan"])

\* _commit(repo, crate, plan): the message committed, unless it raised
_commit(crate, plan, trackerOk) ==
    LET gh == env.GH_TOKEN.set /\ env.GH_TOKEN.val # <<>>
        fetched == ~gh \/ (IsInt(Getenv("TICKET", TZero)) /\ trackerOk)
        ctype == IF gh THEN CommitType(issue.labels, "chore") ELSE "chore"
    IN  IF fetched /\ HasFirst(plan)
        THEN [raised |-> FALSE,
              msg |-> [type |-> ctype, scope |-> crate, subj |-> Subject(First(plan))]]
        ELSE [raised |-> TRUE, msg |-> [type |-> "", scope |-> "", subj |-> <<>>]]

NoDiff == <<>>

\* code_node(state, env): side effects and result, for the completion the
\* client returns (llmOk) and the tracker's answer to _commit (trackerOk)
code_node(s, llmOk, completion, trackerOk) ==
    LET quiet(raised, d) ==
            [raised |-> raised, diff |-> d, effects |-> <<>>, tree |-> tree,
             index |-> index, commits |-> commits, ret |-> s]
    IN  IF ~("plan" \in DOMAIN s /\ "crate" \in DOMAIN s) THEN quiet(TRUE, NoDiff)
        ELSE IF ~Joinable(s["plan"]) \/ ~llmOk THEN quiet(TRUE, NoDiff)
        ELSE LET d == ExtractDiff(completion)
             IN  IF Strip(d) = <<>> THEN quiet(FALSE, d)
                 ELSE LET a == _apply(tree, d)
                          c == _commit(s["crate"], s["plan"], trackerOk)
                      IN  IF c.raised
                          THEN [raised |-> TRUE, diff |-> d, effects |-> a.effects,
                                tree |-> a.tree, index |-> a.tree,
                                commits |-> commits, ret |-> s]
                          ELSE [raised |-> FALSE, diff |-> d,
                                effects |-> a.effects \o <<Ev("commit", "")>>,
                                tree |-> a.tree, index |-> a.tree,
                                commits |-> Append(commits, [msg |-> c.msg, tree |-> a.tree]),
                                ret |-> s]

CodeVisit ==
    /\ pc = "code"
    /\ Count("code", trace) < MaxIter
    /\ \E llmOk \in BOOLEAN, completion \in Completions, trackerOk \in BOOLEAN :
         LET out == code_node(state, llmOk, completion, trackerOk)
         IN  /\ inp' = [node |-> "code", diff |-> out.diff]
             /\ effects' = out.effects
             /\ tree' = out.tree
             /\ index' = out.index
             /\ commits' = out.commits
             /\ IF out.raised
                THEN Raised("code")
                ELSE Returned("code", out.ret) /\ delta' = EmptyDict
    /\ requests' = IF Sends(state) THEN Append(requests, Request(state)) ELSE requests
    /\ UNCHANGED <<coders, env, issue, greens, logs, prs, ghCalls>>

(***************************************************************************)
(* nodes/validate_node.py                                                  *)
(***************************************************************************)
\* HasCmd that takes an empty command string for a command
HasCmdPresent(cfg, key) == key \in DOMAIN cfg

\* cmd = cfg.get(key) is truthy
HasCmd(cfg, key) == key \in DOMAIN cfg /\ cfg[key] # ""

Configured(cfg) == {k \in Range(CMD_KEYS) : HasCmd(cfg, k)}

\* RunChecks leaving the loop at the first check that fails
RECURSIVE RunChecksStop(_, _, _, _, _)
RunChecksStop(cfg, i, F, crash, acc) ==
    IF i > Len(CMD_KEYS) THEN acc
    ELSE LET key == CMD_KEYS[i]
             log == <<cfg["ticket"], cfg["crate"], key>>
         IN  IF ~HasCmd(cfg, key) THEN RunChecksStop(cfg, i + 1, F, crash, acc)
             ELSE IF key = crash
             THEN [acc EXCEPT !.raised = TRUE, !.logs = @ \cup {log}]
             ELSE IF key \in F
             THEN [acc EXCEPT !.logs = @ \cup {log}, !.failed = Append(@, key)]
             ELSE RunChecksStop(cfg, i + 1, F, crash,
                    [acc EXCEPT !.logs = @ \cup {log}, !.passed = Append(@, key)])

\* RunChecks without "if not cmd: continue"
RECURSIVE RunChecksNoSkip(_, _, _, _, _)
RunChecksNoSkip(cfg, i, F, crash, acc) ==
    IF i > Len(CMD_KEYS) THEN acc
    ELSE LET key == CMD_KEYS[i]
             log == <<cfg["ticket"], cfg["crate"], key>>
         IN  IF key = crash
             THEN [acc EXCEPT !.raised = TRUE, !.logs = @ \cup {log}]
             ELSE RunChecksNoSkip(cfg, i + 1, F, crash,
                    [acc EXCEPT !.logs = @ \cup {log},
                                !.passed = IF key \in F THEN @ ELSE Append(@, key),
                                !.failed = IF key \in F THEN Append(@, key) ELSE @])

\* RunChecks with a process that cannot be started counted as a failed check
RECURSIVE RunChecksCatch(_, _, _, _, _)
RunChecksCatch(cfg, i, F, crash, acc) ==
    IF i > Len(CMD_KEYS) THEN acc
    ELSE LET key == CMD_KEYS[i]
             log == <<cfg["ticket"], cfg["crate"], key>>
         IN  IF ~HasCmd(cfg, key) THEN RunChecksCatch(cfg, i + 1, F, crash, acc)
             ELSE RunChecksCatch(cfg, i + 1, F, crash,
                    [acc EXCEPT !.logs = @ \cup {log},
                                !.passed = IF key \in F \cup {crash} THEN @ ELSE Append(@, key),
                                !.failed = IF key \in F \cup {crash} THEN Append(@, key) ELSE @])

\* the loop over CMD_KEYS from position i on; F are the checks whose command
\* exits non-zero and crash is the check whose process cannot be started
RECURSIVE RunChecks(_, _, _, _, _)
RunChecks(cfg, i, F, crash, acc) ==
    IF i > Len(CMD_KEYS) THEN acc
    ELSE LET key == CMD_KEYS[i]
             log == <<cfg["ticket"], cfg["crate"], key>>
         IN  IF ~HasCmd(cfg, key) THEN RunChecks(cfg, i + 1, F, crash, acc)
             ELSE IF key = crash
             THEN [acc EXCEPT !.raised = TRUE, !.logs = @ \cup {log}]
             ELSE RunChecks(cfg, i + 1, F, crash,
                    [acc EXCEPT !.logs = @ \cup {log},
                                !.passed = IF key \in F THEN @ ELSE Append(@, key),
                                !.failed = IF key \in F THEN Append(@, key) ELSE @])

\* every order in which the four checks can be executed
Perms ==
    {o \in [1..Len(CMD_KEYS) -> Range(CMD_KEYS)] : Range(o) = Range(CMD_KEYS)}

NoResults == [raised |-> FALSE, logs |-> {}, passed |-> <<>>, failed |-> <<>>]

\* RunOrder that leaves the loop at the first failed check
RECURSIVE RunOrderStop(_, _, _, _, _)
RunOrderStop(order, cfg, i, F, acc) ==
    IF i > Len(order) THEN acc
    ELSE LET key == order[i]
             log == <<cfg["ticket"], cfg["crate"], key>>
         IN  IF ~HasCmd(cfg, key) THEN RunOrderStop(order, cfg, i + 1, F, acc)
             ELSE IF key \in F
             THEN [acc EXCEPT !.logs = @ \cup {log}, !.failed = Append(@, key)]
             ELSE RunOrderStop(order, cfg, i + 1, F,
                    [acc EXCEPT !.logs = @ \cup {log}, !.passed = Append(@, key)])

\* the body of the loop of validate_node, executed for the keys in the
\* order given, every process starting
RECURSIVE RunOrder(_, _, _, _, _)
RunOrder(order, cfg, i, F, acc) ==
    IF i > Len(order) THEN acc
    ELSE LET key == order[i]
             log == <<cfg["ticket"], cfg["crate"], key>>
         IN  IF ~HasCmd(cfg, key) THEN RunOrder(order, cfg, i + 1, F, acc)
             ELSE RunOrder(order, cfg, i + 1, F,
                    [acc EXCEPT !.logs = @ \cup {log},
                                !.passed = IF key \in F THEN @ ELSE Append(@, key),
                                !.failed = IF key \in F THEN Append(@, key) ELSE @])

\* validate_node taking green from "some check passed"
validate_nodeAnyPass(s, F, crash) ==
    IF ~("ticket" \in DOMAIN s /\ "crate" \in DOMAIN s)
    THEN [raised |-> TRUE, logs |-> {}, passed |-> <<>>, failed |-> <<>>,
          delta |-> EmptyDict, ret |-> s]
    ELSE LET r == RunChecks(s, 1, F, crash,
                     [raised |-> FALSE, logs |-> {}, passed |-> <<>>, failed |-> <<>>])
             green == Len(r.passed) > 0
             kv == [k \in {"green", "validate_passed", "validate_failed"} |->
                      CASE k = "green" -> green
                        [] k = "validate_passed" -> r.passed
                        [] k = "validate_failed" -> r.failed]
         IN  [raised |-> r.raised, logs |-> r.logs, passed |-> r.passed,
              failed |-> r.failed, delta |-> kv, ret |-> DictSpread(s, kv)]

\* validate_node that computes green on the first visit only
validate_nodeGreenKept(s, F, crash) ==
    IF ~("ticket" \in DOMAIN s /\ "crate" \in DOMAIN s)
    THEN [raised |-> TRUE, logs |-> {}, passed |-> <<>>, failed |-> <<>>,
          delta |-> EmptyDict, ret |-> s]
    ELSE LET r == RunChecks(s, 1, F, crash,
                     [raised |-> FALSE, logs |-> {}, passed |-> <<>>, failed |-> <<>>])
             green == Get(s, "green", Len(r.failed) = 0)
             kv == [k \in {"green", "validate_passed", "validate_failed"} |->
                      CASE k = "green" -> green
                        [] k = "validate_passed" -> r.passed
                        [] k = "validate_failed" -> r.failed]
         IN  [raised |-> r.raised, logs |-> r.logs, passed |-> r.passed,
              failed |-> r.failed, delta |-> kv, ret |-> DictSpread(s, kv)]

\* validate_node appending to the lists the state already holds
validate_nodeAccumulate(s, F, crash) ==
    IF ~("ticket" \in DOMAIN s /\ "crate" \in DOMAIN s)
    THEN [raised |-> TRUE, logs |-> {}, passed |-> <<>>, failed |-> <<>>,
          delta |-> EmptyDict, ret |-> s]
    ELSE LET r == RunChecks(s, 1, F, crash,
                     [raised |-> FALSE, logs |-> {},
                      passed |-> Get(s, "validate_passed", <<>>),
                      failed |-> Get(s, "validate_failed", <<>>)])
             green == Len(r.failed) = 0
             kv == [k \in {"green", "validate_passed", "validate_failed"} |->
                      CASE k = "green" -> green
                        [] k = "validate_passed" -> r.passed
                        [] k = "validate_failed" -> r.failed]
         IN  [raised |-> r.raised, logs |-> r.logs, passed |-> r.passed,
              failed |-> r.failed, delta |-> kv, ret |-> DictSpread(s, kv)]

\* validate_node(state, env)
validate_node(s, F, crash) ==
    IF ~("ticket" \in DOMAIN s /\ "crate" \in DOMAIN s)
    THEN [raised |-> TRUE, logs |-> {}, passed |-> <<>>, failed |-> <<>>,
          delta |-> EmptyDict, ret |-> s]
    ELSE LET r == RunChecks(s, 1, F, crash,
                     [raised |-> FALSE, logs |-> {}, passed |-> <<>>, failed |-> <<>>])
             green == Len(r.failed) = 0
             kv == [k \in {"green", "validate_passed", "validate_failed"} |->
                      CASE k = "green" -> green
                        [] k = "validate_passed" -> r.passed
                        [] k = "validate_failed" -> r.failed]
         IN  [raised |-> r.raised, logs |-> r.logs, passed |-> r.passed,
              failed |-> r.failed, delta |-> kv, ret |-> DictSpread(s, kv)]

ValidateVisit ==
    /\ pc = "validate"
    /\ \E F \in SUBSET Configured(state), crash \in Configured(state) \cup {"none"} :
         LET out == validate_node(state, F, crash)
         IN  /\ inp' = [node |-> "validate", crash |-> crash,
                        fails |-> F \cap Range(out.passed \o out.failed)]
             /\ logs' = logs \cup out.logs
             /\ IF out.raised
                THEN Raised("validate") /\ greens' = greens
                ELSE /\ Returned("validate", out.ret)
                     /\ delta' = out.delta
                     /\ greens' = Append(greens, out.ret["green"])
    /\ effects' = <<>>
    /\ UNCHANGED <<coders, requests, env, issue, tree, index, commits, prs, ghCalls>>

(***************************************************************************)
(* nodes/pr_node.py                                                        *)
(***************************************************************************)
AutoPrefix == <<"a", "u", "t", "o", "/">>

\* Body with the glyph of a row taken from validate_failed
BodyFromFailed(s) ==
    [rows |-> [k \in Range(CMD_KEYS) |-> k \notin Range(s["validate_failed"])],
     logs |-> s["validate_failed"]]

\* the table rows and the log section of body_md
Body(s) ==
    [rows |-> [k \in Range(CMD_KEYS) |-> k \in Range(s["validate_passed"])],
     logs |-> s["validate_failed"]]

Title(s) == [crate |-> s["crate"], ticket |-> s["ticket"]]

NewNumber(open) == IF open = <<>> THEN 1 ELSE SetMax(Range(open)) + 1

PrCall(op, number, head, base, draft, s) ==
    [op |-> op, number |-> number, head |-> head, base |-> base, draft |-> draft,
     title |-> Title(s), body |-> Body(s)]

\* TrackerWrite without the lookup result: a request is created every time
TrackerWriteCreate(s, open, branch) ==
    [open |-> Append(open, NewNumber(open)),
     calls |-> <<PrCall("create", NewNumber(open), branch, "main", TRUE, s)>>]

\* TrackerWrite updating the last request listed instead of the first
TrackerWriteLast(s, open, branch) ==
    IF open # <<>>
    THEN [open |-> open,
          calls |-> <<PrCall("update", open[Len(open)], <<>>, "", FALSE, s)>>]
    ELSE [open |-> <<NewNumber(open)>>,
          calls |-> <<PrCall("create", NewNumber(open), branch, "main", TRUE, s)>>]

\* if prs: gh.issues.update(prs[0].number ...) else: gh.pulls.create(...);
\* a request created is open and listed from then on
TrackerWrite(s, open, branch) ==
    IF open # <<>>
    THEN [open |-> open,
          calls |-> <<PrCall("update", open[1], <<>>, "", FALSE, s)>>]
    ELSE [open |-> <<NewNumber(open)>>,
          calls |-> <<PrCall("create", NewNumber(open), branch, "main", TRUE, s)>>]

\* pr_node(state, env) with the requests the tracker lists as open
pr_node(s, open, trackerOk) ==
    LET quiet == [raised |-> TRUE, calls |-> <<>>, open |-> open, ret |-> s]
    IN  IF ~(env.GITHUB_REPOSITORY.set /\ env.GH_TOKEN.set) THEN quiet
        ELSE IF ~({"ticket", "crate", "validate_passed", "validate_failed"} \subseteq DOMAIN s)
        THEN quiet
        ELSE IF ~trackerOk THEN quiet
        ELSE LET branch == Getenv("GITHUB_HEAD_REF", AutoPrefix \o s["ticket"])
                 w == TrackerWrite(s, open, branch)
             IN  [raised |-> FALSE, calls |-> w.calls, open |-> w.open, ret |-> s]

PrVisit ==
    /\ pc = "pr"
    /\ \E trackerOk \in BOOLEAN :
         LET out == pr_node(state, prs, trackerOk)
         IN  /\ inp' = [node |-> "pr", open |-> prs]
             /\ prs' = out.open
             /\ ghCalls' = ghCalls \o out.calls
             /\ IF out.raised
                THEN Raised("pr")
                ELSE Returned("pr", out.ret) /\ delta' = EmptyDict
    /\ effects' = <<>>
    /\ UNCHANGED <<coders, requests, env, issue, greens, tree, index, commits, logs>>

\* the Publisher is invoked once more for the same branch and Run State
Reinvoke ==
    /\ pc = END
    /\ Count("pr", trace) < MaxPrCalls
    /\ pc' = "pr"
    /\ UNCHANGED <<state, env, issue, trace, greens, inp, delta, effects,
                   tree, index, commits, logs, prs, ghCalls, coders, requests>>

Next == PlanVisit \/ CodeVisit \/ ValidateVisit \/ PrVisit

Spec == Init /\ [][Next]_vars

\* workflow.invoke(state) returns only when the walk has ended: each node is
\* a blocking call, and when it has returned the Engine goes on to the next
SpecLive == Init /\ [][Next]_vars /\ WF_vars(Next)

NextPr == Next \/ Reinvoke

SpecPr == Init /\ [][NextPr]_vars

(***************************************************************************)
(* Validator visits under every profile: the Engine stands before the      *)
(* Validator after a Coder visit that changed nothing, either the first of *)
(* the run or one that follows a Validator visit in which prevF failed.    *)
(***************************************************************************)
Planned(cfg) ==
    DictSpread(InitialState(DefaultWorld.env, cfg),
               [k \in {"plan"} |-> JList(<<JStr(TaskA), JStr(TaskB)>>)])

InitValidate ==
    \E cfg \in {c \in Profiles : "crate" \in DOMAIN c} :
      \E prevF \in SUBSET Configured(cfg) :
        LET prev == validate_node(Planned(cfg), prevF, "none")
        IN  /\ env = DefaultWorld.env
            /\ issue = DefaultWorld.issue
            /\ prs = DefaultWorld.prs
            /\ pc = "validate"
            /\ state = IF prevF = {} THEN Planned(cfg) ELSE prev.ret
            /\ trace = IF prevF = {} THEN <<"plan", "code">>
                       ELSE <<"plan", "code", "validate", "code">>
            /\ greens = IF prevF = {} THEN <<>> ELSE <<FALSE>>
            /\ logs = IF prevF = {} THEN {} ELSE prev.logs
            /\ inp = [node |-> "code", diff |-> NoDiff]
            /\ delta = EmptyDict
            /\ effects = <<>>
            /\ tree = Tree0
            /\ index = Tree0
            /\ commits = <<>>
            /\ ghCalls = <<>>
            /\ coders = <<>>
            /\ requests = IF prevF = {} THEN <<Request(Planned(cfg))>>
                          ELSE <<Request(Planned(cfg)), Request(Planned(cfg))>>

SpecValidate == InitValidate /\ [][ValidateVisit]_vars

(***************************************************************************)
(* nodes/code_node.py, step by step: the Coder visits of two runs started  *)
(* in the same checkout.  repo = git.Repo(".") and Path(pf.path) make the  *)
(* working tree, the index and the history common to both; each run has    *)
(* its own Run State, of which the visit reads plan and crate.             *)
(***************************************************************************)
Runs == {1, 2}

T43 == <<"4", "3">>

Pairs == {[ticket |-> T42, crate |-> "wrt-decoder"],
          [ticket |-> T43, crate |-> "wrt-runtime"]}

\* diffs with content, as ExtractDiff hands them to _apply
RunPatches == {<<ModifyA>>, <<CreateB>>, <<RemoveA, CreateB>>, <<ModifyA, CreateB>>}

\* a Coder visit that has a diff with content and stands before _apply
Run(pair, patch) ==
    [ticket |-> pair.ticket, crate |-> pair.crate,
     files |-> PatchSet(patch), pos |-> 0, at |-> "apply"]

\* Outset, but for the Coder visits in progress
OutsetRuns(w) ==
    /\ env = w.env
    /\ issue = w.issue
    /\ prs = w.prs
    /\ greens = <<>>
    /\ inp = NoInput
    /\ delta = EmptyDict
    /\ effects = <<>>
    /\ tree = Tree0
    /\ index = Tree0
    /\ commits = <<>>
    /\ logs = {}
    /\ ghCalls = <<>>

\* both runs have been through plan and enter code_node; the first works on
\* ticket 42 and wrt-decoder, the second on the same pair or on another one
InitRuns ==
    \E pair \in Pairs, p1 \in RunPatches, p2 \in RunPatches :
        /\ OutsetRuns(DefaultWorld)
        /\ state = Planned(DefaultProfile)
        /\ pc = "code"
        /\ trace = <<"plan">>
        /\ coders = <<Run([ticket |-> T42, crate |-> "wrt-decoder"], p1), Run(pair, p2)>>
        /\ requests = <<RequestOf(state["plan"], "wrt-decoder"),
                       RequestOf(state["plan"], pair.crate)>>

RunFrame ==
    UNCHANGED <<pc, state, env, issue, trace, greens, inp, delta, logs, prs, ghCalls, requests>>

\* one iteration of "for pf in PatchSet(patch)" in _apply
WriteStep(r) ==
    LET c == coders[r]
    IN  /\ c.at = "apply"
        /\ c.pos < Len(c.files)
        /\ tree' = ApplyFile(tree, c.files[c.pos + 1])
        /\ effects' = Append(effects, FileEffect(c.files[c.pos + 1]))
        /\ coders' = [coders EXCEPT ![r].pos = @ + 1]
        /\ UNCHANGED <<index, commits>>
        /\ RunFrame

\* repo.git.add(all=True): everything the working tree holds is staged
StageStep(r) ==
    LET c == coders[r]
    IN  /\ c.at = "apply"
        /\ c.pos = Len(c.files)
        /\ index' = tree
        /\ effects' = Append(effects, Ev("add", ""))
        /\ coders' = [coders EXCEPT ![r].at = "commit"]
        /\ UNCHANGED <<tree, commits>>
        /\ RunFrame

\* repo.index.commit(...) in _commit: the index becomes a commit
CommitStep(r) ==
    LET c == coders[r]
        m == _commit(c.crate, state["plan"], TRUE)
    IN  /\ c.at = "commit"
        /\ ~m.raised
        /\ commits' = Append(commits, [msg |-> m.msg, tree |-> index])
        /\ effects' = Append(effects, Ev("commit", ""))
        /\ coders' = [coders EXCEPT ![r].at = "done"]
        /\ UNCHANGED <<tree, index>>
        /\ RunFrame

NextRuns == \E r \in Runs : WriteStep(r) \/ StageStep(r) \/ CommitStep(r)

SpecRuns == InitRuns /\ [][NextRuns]_vars

(***************************************************************************)
(* nodes/code_node.py in the loop: Coder visits (and the Validator visits   *)
(* between them) for diffs that address lines of a.rs in several ways, for  *)
(* every kind of label the ticket can carry and for plans whose first task  *)
(* is long or has line breaks.                                              *)
(***************************************************************************)
MaxRevisit == 2     \* Coder visits explored per run of SpecCoder

Tree4 == [p \in {"a.rs"} |-> <<"l1", "l2", "l3", "l4">>]

AFile(hunks) == FileTok("a.rs", FALSE, hunks)

\* @@ -2,1 +2,1 @@ replacing l2 by x2
ReplaceL2 == AFile(<<Hunk(2, 1, <<HLine("-", "l2"), HLine("+", "x2")>>)>>)

\* @@ -1,1 +1,2 @@ adding n1 after l1
InsertN1 == AFile(<<Hunk(1, 1, <<HLine(" ", "l1"), HLine("+", "n1")>>)>>)

\* two hunks in ascending order, the first adding a line
TwoInserts ==
    AFile(<<Hunk(1, 1, <<HLine(" ", "l1"), HLine("+", "n1")>>),
            Hunk(3, 1, <<HLine(" ", "l3"), HLine("+", "n3")>>)>>)

\* @@ -7,1 +7,1 @@: the range starts beyond the last line
BeyondEnd == AFile(<<Hunk(7, 1, <<HLine("-", "l7"), HLine("+", "z7")>>)>>)

\* @@ -3,4 +3,2 @@: the range starts inside the file and ends past it
PastEnd ==
    AFile(<<Hunk(3, 4, <<HLine(" ", "l3"), HLine("-", "l4"), HLine("-", "l5"),
                         HLine("-", "l6"), HLine("+", "z4")>>)>>)

\* completions that are a diff, without tags around it
HunkPatches ==
    {<<ReplaceL2>>, <<InsertN1>>, <<TwoInserts>>, <<BeyondEnd>>, <<PastEnd>>,
     <<ModifyA>>, <<RemoveA, CreateB>>}

\* issue.labels: every key of label2type, in some case, and names outside it
CoderLabels ==
    {<<>>, <<"wontfix">>, <<"feat">>, <<"Fix">>, <<"BUG">>, <<"Docs">>, <<"test">>,
     <<"refactor", "wontfix">>, <<"bug", "docs">>}

NoToken == MkEnv(SetTo(OwnerRepo), Unset, Unset, SetTo(T42))

\* a first task of 52 characters with a carriage return and a line feed
LongTask == [i \in 1..(SubjLen + 2) |-> IF i = 3 THEN "\r" ELSE IF i = 7 THEN "\n" ELSE "x"]

DefaultPlan == JList(<<JStr(TaskA), JStr(TaskB)>>)

CoderPlans == {DefaultPlan, JList(<<JStr(LongTask)>>), JStr(TaskB)}

\* what a Coder visit finds: the file, the labels, the token and the plan
CoderSetups ==
    {[tree |-> t, labels |-> DefaultWorld.issue.labels, env |-> DefaultWorld.env,
      plan |-> DefaultPlan] : t \in {Tree0, Tree4}}
    \cup {[tree |-> Tree0, labels |-> l, env |-> e, plan |-> DefaultPlan] :
            l \in CoderLabels, e \in {DefaultWorld.env, NoToken}}
    \cup {[tree |-> Tree0, labels |-> DefaultWorld.issue.labels,
           env |-> DefaultWorld.env, plan |-> q] : q \in CoderPlans}

InitCoder ==
    \E u \in CoderSetups :
        /\ env = u.env
        /\ issue = [labels |-> u.labels]
        /\ prs = <<>>
        /\ state = DictSpread(InitialState(u.env, DefaultProfile),
                              [k \in {"plan"} |-> u.plan])
        /\ pc = "code"
        /\ trace = <<"plan">>
        /\ greens = <<>>
        /\ inp = NoInput
        /\ delta = EmptyDict
        /\ effects = <<>>
        /\ tree = u.tree
        /\ index = u.tree
        /\ commits = <<>>
        /\ logs = {}
        /\ ghCalls = <<>>
        /\ coders = <<>>
        /\ requests = <<>>

\* code_node for a completion that is a diff; the file contents _apply reads
\* are kept with the answer
PatchVisit ==
    /\ pc = "code"
    /\ Count("code", trace) < MaxRevisit
    /\ \E patch \in HunkPatches :
         LET out == code_node(state, TRUE, patch, TRUE)
         IN  /\ inp' = [node |-> "code", diff |-> out.diff, before |-> tree]
             /\ effects' = out.effects
             /\ tree' = out.tree
             /\ index' = out.index
             /\ commits' = out.commits
             /\ IF out.raised
                THEN Raised("code")
                ELSE Returned("code", out.ret) /\ delta' = EmptyDict
    /\ requests' = IF Sends(state) THEN Append(requests, Request(state)) ELSE requests
    /\ UNCHANGED <<coders, env, issue, greens, logs, prs, ghCalls>>

NextCoder == PatchVisit \/ ValidateVisit

SpecCoder == InitCoder /\ [][NextCoder]_vars

(***************************************************************************)
(* Properties                                                              *)
(***************************************************************************)
Last(s) == s[Len(s)]

Visits(node) == Count(node, trace)

\* green was produced for the first time by the last Validator visit so far
FirstGreenNow ==
    /\ greens # <<>>
    /\ Last(greens)
    /\ \A i \in 1..(Len(greens) - 1) : ~greens[i]

\* C1: in a run without node failure, once the Engine has left the loop
\* (it stands before the Publisher or at the terminal sentinel) the Validator
\* has yielded green exactly once, on its last visit k, Coder and Validator
\* have been invoked exactly k times each, and at the terminal sentinel the
\* Publisher has been invoked exactly once; with green = false, false, true
\* this is 3, 3 and 1.
C1_LoopTermination ==
    pc \in {"pr", END} =>
        /\ FirstGreenNow
        /\ Visits("code") = Len(greens)
        /\ Visits("validate") = Len(greens)
        /\ Visits("pr") = (IF pc = END THEN 1 ELSE 0)
        /\ (greens = <<FALSE, FALSE, TRUE>> /\ pc = END =>
              Visits("code") = 3 /\ Visits("validate") = 3 /\ Visits("pr") = 1)

C1_Witness ==
    pc = END /\ greens = <<FALSE, FALSE, TRUE>> /\ Visits("code") = 3

\* C2: a completed Validator visit is followed by pr exactly if green is true
\* in the state after the merge, and by code otherwise; a completed visit of
\* plan, code or pr has one successor: code, validate and END respectively.
C2_Routing ==
    [][(trace' # trace /\ pc' # "aborted") =>
          /\ pc = "validate" =>
               /\ pc' \in {"code", "pr"}
               /\ pc' = "pr" <=> ("green" \in DOMAIN state' /\ state'["green"] = TRUE)
          /\ pc = "plan" => pc' = "code"
          /\ pc = "code" => pc' = "validate"
          /\ pc = "pr" => pc' = END]_vars

C2_Witness ==
    /\ pc = "code"
    /\ Len(trace) = 3
    /\ Last(trace) = "validate"
    /\ state["green"] = FALSE

\* C3: the visits of a run form a prefix of plan, (code, validate)+, pr:
\* plan is the first visit and only the first, every validate follows a code,
\* every code follows plan or a validate, pr follows a validate and nothing
\* follows pr; the terminal sentinel is reached from pr only, and the node
\* visited next continues the same shape.
C3_Shape ==
    /\ \A i \in 1..Len(trace) :
         /\ (trace[i] = "plan") <=> (i = 1)
         /\ trace[i] = "validate" => i > 1 /\ trace[i - 1] = "code"
         /\ trace[i] = "code" => i > 1 /\ trace[i - 1] \in {"plan", "validate"}
         /\ trace[i] = "pr" => i > 1 /\ trace[i - 1] = "validate" /\ i = Len(trace)
    /\ pc = "plan" <=> trace = <<>>
    /\ pc = "code" => Last(trace) \in {"plan", "validate"}
    /\ pc = "validate" => Last(trace) = "code"
    /\ pc = "pr" => Last(trace) = "validate"
    /\ pc = END => Last(trace) = "pr" /\ Visits("pr") = 1 /\ Visits("code") >= 1

C3_Witness ==
    pc = END /\ trace = <<"plan", "code", "validate", "code", "validate", "pr">>

\* the check names to which the profile in the Run State gives a command
WithCommand == {k \in Range(CMD_KEYS) : k \in DOMAIN state /\ state[k] # ""}

\* C4: after a completed Validator visit in which exactly the checks of F
\* (inp.fails) failed, validate_failed holds exactly F, validate_passed holds
\* exactly the other checks that have a command (each once, none without a
\* command), green is true exactly if F is empty, and the next node is code
\* exactly if F is not empty.
C4_ValidatorCorrect ==
    (inp.node = "validate" /\ pc # "aborted") =>
        /\ Range(state["validate_failed"]) = inp.fails
        /\ Range(state["validate_passed"]) = WithCommand \ inp.fails
        /\ Len(state["validate_failed"]) = Cardinality(inp.fails)
        /\ Len(state["validate_passed"]) = Cardinality(WithCommand \ inp.fails)
        /\ state["green"] = (inp.fails = {})
        /\ (pc = "code") = (inp.fails # {})
        /\ (pc = "pr") = (inp.fails = {})

C4_Witness ==
    /\ inp.node = "validate"
    /\ state["ticket"] = <<"4", "2">>
    /\ state["crate"] = "wrt-decoder"
    /\ WithCommand = {"std_build", "nostd_build"}
    /\ inp.fails = {"nostd_build"}
    /\ state["validate_passed"] = <<"std_build">>
    /\ state["validate_failed"] = <<"nostd_build">>
    /\ state["green"] = FALSE
    /\ pc = "code"

\* C5: whenever the Publisher is about to be or has been invoked, green is
\* true, validate_failed is empty and validate_passed holds every check that
\* has a command; a Validator visit in which a check failed never leads to the
\* Publisher, and as long as no Validator visit has yielded green the
\* Publisher has not been invoked.
C5_PublisherOnlyGreen ==
    /\ (pc = "pr" \/ "pr" \in Range(trace)) =>
          /\ "green" \in DOMAIN state /\ state["green"] = TRUE
          /\ state["validate_failed"] = <<>>
          /\ Range(state["validate_passed"]) = WithCommand
    /\ (inp.node = "validate" /\ inp.fails # {}) => pc \notin {"pr", END}
    /\ (\A i \in 1..Len(greens) : ~greens[i]) =>
          pc \notin {"pr", END} /\ "pr" \notin Range(trace)

C5_Witness == pc = "pr" /\ greens = <<FALSE, TRUE>>

\* C6: a completed node visit leaves a Run State that holds, for every field
\* the node wrote (delta), the value written, and for every other field the
\* value it had before; its fields are those of before and those written;
\* a node that wrote nothing leaves the Run State as it was.
C6_MergeLaw ==
    [][(trace' # trace /\ pc' # "aborted") =>
          /\ DOMAIN state' = DOMAIN state \cup DOMAIN delta'
          /\ \A k \in DOMAIN state' :
                IF k \in DOMAIN delta' THEN state'[k] = delta'[k]
                ELSE state'[k] = state[k]
          /\ DOMAIN delta' = {} => state' = state]_vars

C6_Witness ==
    /\ inp.node = "validate"
    /\ Len(greens) = 2
    /\ greens[1] # greens[2]
    /\ DOMAIN delta = {"green", "validate_passed", "validate_failed"}
    /\ state["green"] = delta["green"]

\* C7: a completed Coder visit whose diff is empty or consists of whitespace
\* only has no side effect (no write, no unlink, no staging, no commit): it
\* leaves tree, index and history unchanged, and the Run State as well.
C7_EmptyDiffNoOp ==
    [][(pc = "code" /\ pc' = "validate"
          /\ \A i \in 1..Len(inp'.diff) : inp'.diff[i].k = "ws") =>
          /\ effects' = <<>>
          /\ tree' = tree
          /\ index' = index
          /\ commits' = commits
          /\ state' = state]_vars

C7_Witness ==
    /\ inp.node = "code"
    /\ pc = "validate"
    /\ inp.diff # <<>>
    /\ \A i \in 1..Len(inp.diff) : inp.diff[i].k = "ws"

\* C8: over the Publisher invocations for one branch at most one request is
\* created, only by the first write and only when no request was open; every
\* later write is an update, and a request created is the one updated.
C8_NoDuplicateRequests ==
    /\ Cardinality({i \in 1..Len(ghCalls) : ghCalls[i].op = "create"}) <= 1
    /\ \A i \in 2..Len(ghCalls) : ghCalls[i].op = "update"
    /\ \A i \in 1..Len(ghCalls) :
          ghCalls[i].op = "create" => prs = <<ghCalls[i].number>>

C8_Witness ==
    /\ Len(ghCalls) = 2
    /\ ghCalls[1].op = "create"
    /\ ghCalls[2].op = "update"
    /\ ghCalls[2].number = ghCalls[1].number

\* C9: a completed Publisher visit issues exactly one tracker write: when
\* requests are open for the branch an update of the first of them, else the
\* creation of a draft request from the run's branch onto main; it leaves the
\* Run State unchanged.
C9_OneWrite ==
    [][(pc = "pr" /\ pc' = END) =>
          /\ state' = state
          /\ Len(ghCalls') = Len(ghCalls) + 1
          /\ SubSeq(ghCalls', 1, Len(ghCalls)) = ghCalls
          /\ LET c == ghCalls'[Len(ghCalls')]
             IN  IF prs # <<>>
                 THEN c.op = "update" /\ c.number = prs[1] /\ prs' = prs
                 ELSE /\ c.op = "create" /\ c.draft = TRUE /\ c.base = "main"
                      /\ c.head = (IF env.GITHUB_HEAD_REF.set
                                   THEN env.GITHUB_HEAD_REF.val
                                   ELSE <<"a", "u", "t", "o", "/">> \o state["ticket"])]_vars

C9_Witness ==
    /\ pc = END
    /\ inp.node = "pr"
    /\ inp.open = <<7, 9>>
    /\ Len(ghCalls) = 1
    /\ ghCalls[1].op = "update"
    /\ ghCalls[1].number = 7

\* the reply holds no task list: the call failed, or its text is not JSON, or
\* the JSON is not a dict that has a list under "tasks"
NoTaskList(r) ==
    \/ r.kind \in {"raise", "garbage"}
    \/ ~(r.val.t = "dict" /\ r.val.items # <<>> /\ r.val.items[1].t = "list")

\* C10: when the generation call fails or its output holds no task list, the
\* Planner visit completes, the next node is code, plan is the one-element
\* degraded plan and every other field is unchanged.
C10_PlannerFailSoft ==
    [][(pc = "plan" /\ inp'.node = "plan" /\ ~inp'.body.raised
          /\ NoTaskList(inp'.reply)) =>
          /\ pc' = "code"
          /\ DOMAIN state' = DOMAIN state \cup {"plan"}
          /\ state'["plan"].t = "list"
          /\ Len(state'["plan"].items) = 1
          /\ state'["plan"].items[1].s = LLMFailed
          /\ \A k \in DOMAIN state : state'[k] = state[k]]_vars

\* C11: a Planner visit never ends the run: whatever the tracker and the
\* generation service do and whatever the ticket is, the run is not aborted
\* in plan.
C11_PlannerNeverAborts == ~(pc = "aborted" /\ Last(trace) = "plan")

\* C12: a visit of code, validate or pr in which the node fails (code without
\* a crate or with a plan that is no text, validate with a check whose
\* process cannot be started, pr without repository or token) ends the run:
\* the Run State is left as it was, no edge is taken, and after an abort
\* there is no further visit, so END is never reached.
C12_FailFast ==
    [][/\ pc = "aborted" => FALSE
       /\ pc' = "aborted" => state' = state /\ trace' = Append(trace, pc)
       /\ (\/ pc = "code" /\ "crate" \notin DOMAIN state
           \/ pc = "code" /\ state["plan"].t \in {"null", "num"}
           \/ pc = "validate" /\ inp'.node = "validate" /\ inp'.crash # "none"
           \/ pc = "pr" /\ ~(env.GITHUB_REPOSITORY.set /\ env.GH_TOKEN.set))
          => pc' = "aborted"]_vars

C12_Witness ==
    /\ pc = "aborted"
    /\ Last(trace) = "validate"
    /\ inp.node = "validate"
    /\ inp.crash = "test"
    /\ Len(trace) = 5

\* the run's Coder visit has changed the working tree and has not committed yet
Busy(r) == coders[r].at # "done" /\ (coders[r].pos > 0 \/ coders[r].at = "commit")

SamePair(r1, r2) ==
    coders[r1].ticket = coders[r2].ticket /\ coders[r1].crate = coders[r2].crate

\* C13: of two runs for the same ticket and crate, at most one is at any time
\* between its first write to the working tree and its commit.
C13_MutualExclusion ==
    \A r1 \in DOMAIN coders, r2 \in DOMAIN coders :
        r1 # r2 /\ SamePair(r1, r2) => ~(Busy(r1) /\ Busy(r2))

\* the run that created a commit, told by the crate in its message
Author(c) == CHOOSE r \in DOMAIN coders : coders[r].crate = c.msg.scope

\* C14: when the two runs work on different pairs, every commit holds what
\* its run alone makes of the commit before it: the run's own file changes
\* and nothing the other run wrote.
C14_Independence ==
    (coders # <<>> /\ ~SamePair(1, 2)) =>
        \A i \in DOMAIN commits :
            commits[i].tree =
                ApplyFiles(IF i = 1 THEN Tree0 ELSE commits[i - 1].tree,
                           coders[Author(commits[i])].files)

Logged == {l[3] : l \in logs}

\* C15: a check without a command (key absent, or empty string) is not run:
\* no log is written for it and it is in neither list; after a completed
\* Validator visit the two lists are disjoint, together they hold exactly the
\* checks that have a command, and exactly these have a log.
C15_SkipUnconfigured ==
    /\ Logged \subseteq WithCommand
    /\ (inp.node = "validate" /\ pc # "aborted") =>
          /\ Range(state["validate_passed"]) \cap Range(state["validate_failed"]) = {}
          /\ Range(state["validate_passed"]) \cup Range(state["validate_failed"]) = WithCommand
          /\ Logged = WithCommand

C15_Witness ==
    /\ inp.node = "validate"
    /\ pc = "code"
    /\ "clippy" \in DOMAIN state /\ state["clippy"] = ""
    /\ "nostd_build" \in DOMAIN state /\ state["nostd_build"] = ""
    /\ WithCommand = {"std_build", "test"}
    /\ Logged = {"std_build", "test"}
    /\ state["validate_passed"] = <<"std_build">>
    /\ state["validate_failed"] = <<"test">>

\* C16: once a Validator visit has yielded green, the run goes on to the
\* Publisher and, unless a node fails, to END; and the run is at END only
\* when the node visited last is the Publisher.
C16_Liveness ==
    /\ (greens # <<>> /\ Last(greens)) ~>
          (Visits("pr") = 1 /\ (pc = END \/ pc = "aborted"))
    /\ [](pc = END => trace # <<>> /\ Last(trace) = "pr")

C16_Witness ==
    /\ pc = END
    /\ greens = <<FALSE, TRUE>>
    /\ trace = <<"plan", "code", "validate", "code", "validate", "pr">>

Keeps(ret) == DOMAIN state \subseteq DOMAIN ret

\* C17: no visit removes a field: the dict each node hands back, whatever its
\* collaborators answer, has every key of the Run State it was given, and so
\* has the Run State after the visit.
C17_Monotone ==
    [][/\ DOMAIN state \subseteq DOMAIN state'
       /\ pc = "plan" =>
            \A ok \in BOOLEAN, r \in PlanReplies : Keeps(plan_node(state, ok, r).ret)
       /\ pc = "code" =>
            \A llmOk \in BOOLEAN, c \in Completions, ok \in BOOLEAN :
                Keeps(code_node(state, llmOk, c, ok).ret)
       /\ pc = "validate" =>
            \A F \in SUBSET Configured(state), crash \in Configured(state) \cup {"none"} :
                Keeps(validate_node(state, F, crash).ret)
       /\ pc = "pr" =>
            \A ok \in BOOLEAN : Keeps(pr_node(state, prs, ok).ret)]_vars

C17_Witness ==
    /\ pc = END
    /\ trace = <<"plan", "code", "validate", "pr">>
    /\ DOMAIN state = {"ticket", "crate", "test", "plan", "green",
                       "validate_passed", "validate_failed"}

EntryKeys == {"ticket", "crate"} \cup Range(CMD_KEYS)

\* C18: ticket, crate and the check commands are in every step what they were
\* before it (none appears, none disappears, none changes), and plan, once in
\* the Run State, stays as it is.
C18_Frame ==
    [][/\ \A k \in EntryKeys :
            /\ (k \in DOMAIN state) = (k \in DOMAIN state')
            /\ k \in DOMAIN state => state'[k] = state[k]
       /\ "plan" \in DOMAIN state =>
            "plan" \in DOMAIN state' /\ state'["plan"] = state["plan"]]_vars

C18_Witness ==
    /\ pc = END
    /\ Visits("code") = 2
    /\ Visits("validate") = 2
    /\ state["plan"] = JList(<<JStr(TaskA), JStr(TaskB)>>)
    /\ state["ticket"] = T42
    /\ state["crate"] = "wrt-decoder"
    /\ state["test"] = "cmd"

Prev(key) == IF key \in DOMAIN state THEN Range(state[key]) ELSE {}

\* C19: a completed Validator visit in which exactly the checks of F failed
\* leaves F in validate_failed, whatever the lists held before: a check that
\* had failed and passes now is in validate_passed only, one that had passed
\* and fails now is in validate_failed only; green is F = {} and the edge
\* taken follows this green, not the one the state held before the visit.
C19_Recomputed ==
    [][(pc = "validate" /\ pc' # "aborted") =>
          /\ Range(state'["validate_failed"]) = inp'.fails
          /\ \A k \in Prev("validate_failed") \ inp'.fails :
                 /\ k \in Range(state'["validate_passed"])
                 /\ k \notin Range(state'["validate_failed"])
          /\ \A k \in Prev("validate_passed") \cap inp'.fails :
                 /\ k \in Range(state'["validate_failed"])
                 /\ k \notin Range(state'["validate_passed"])
          /\ state'["green"] = (inp'.fails = {})
          /\ pc' = (IF inp'.fails = {} THEN "pr" ELSE "code")]_vars

C19_Witness ==
    /\ trace = <<"plan", "code", "validate", "code", "validate">>
    /\ greens = <<FALSE, TRUE>>
    /\ pc = "pr"
    /\ state["validate_failed"] = <<>>
    /\ state["validate_passed"] = <<"std_build", "test">>
    /\ state["green"]

\* a required credential or the crate is missing from what the run was given
Misconfigured ==
    \/ ~env.GITHUB_REPOSITORY.set
    \/ ~env.GH_TOKEN.set
    \/ "crate" \notin DOMAIN state

\* C20: in a run that lacks the tracker repository, the token or the crate
\* no node is ever visited, the working tree stays as it was and nothing is
\* committed.
C20_FatalAtStartup ==
    Misconfigured => trace = <<>> /\ tree = Tree0 /\ index = Tree0 /\ commits = <<>>

Files == PatchSet(inp.diff)

\* the lines the visit found in the file
Before(path) == IF path \in DOMAIN inp.before THEN inp.before[path] ELSE <<>>

\* the context and added lines of a hunk
Replacement(h) ==
    LET kept == SelectSeq(h.lines, LAMBDA l : l.t # "-")
    IN  [i \in 1..Len(kept) |-> kept[i].value]

First0(h) == Max(h.source_start, 1) - 1

InRange(h, lines) ==
    /\ h.source_start >= (IF h.source_length = 0 THEN 0 ELSE 1)
    /\ First0(h) + h.source_length <= Len(lines)

\* lines with the range the hunk addresses replaced by its replacement lines
Spliced(lines, h) ==
    SubSeq(lines, 1, First0(h)) \o Replacement(h)
        \o SubSeq(lines, First0(h) + h.source_length + 1, Len(lines))

\* C22: after a Coder visit, a file for which the diff has one hunk, whose
\* range lies in the file as it was, is that file with the range replaced by
\* the hunk's context and added lines: the removed lines are gone, the lines
\* outside the range are as they were.
C22_HunkReplaces ==
    inp.node = "code" =>
        \A i \in DOMAIN Files :
            LET pf == Files[i]
            IN  (~pf.removed /\ Len(pf.hunks) = 1 /\ InRange(pf.hunks[1], Before(pf.path)))
                    => tree[pf.path] = Spliced(Before(pf.path), pf.hunks[1])

\* every range replaced in the lines as they were, the last hunk first
RECURSIVE SplicedAll(_, _)
SplicedAll(lines, hs) ==
    IF hs = <<>> THEN lines
    ELSE SplicedAll(Spliced(lines, hs[Len(hs)]), SubSeq(hs, 1, Len(hs) - 1))

Ascending(hs) ==
    \A i \in 1..(Len(hs) - 1) :
        First0(hs[i]) + hs[i].source_length <= First0(hs[i + 1])

\* C23: after a Coder visit, a file for which the diff has several hunks,
\* ascending, apart from each other and inside the file as it was, is that
\* file with each hunk's range replaced by its replacement lines.
C23_HunksInOrder ==
    inp.node = "code" =>
        \A i \in DOMAIN Files :
            LET pf == Files[i]
                old == Before(pf.path)
            IN  (/\ ~pf.removed
                 /\ Len(pf.hunks) > 1
                 /\ Ascending(pf.hunks)
                 /\ \A j \in DOMAIN pf.hunks : InRange(pf.hunks[j], old))
                    => tree[pf.path] = SplicedAll(old, pf.hunks)

\* the first visit had a diff with a hunk whose range is not in the file
OutOfRangeVisit ==
    /\ inp.node = "code"
    /\ Visits("code") = 1
    /\ \E i \in DOMAIN Files :
           /\ ~Files[i].removed
           /\ Len(Files[i].hunks) = 1
           /\ ~InRange(Files[i].hunks[1], Before(Files[i].path))

\* C24: a Coder visit whose diff has a hunk with a range outside the file
\* fails: the run is aborted, the file is as it was and there is no commit.
C24_OutOfRangeFatal ==
    OutOfRangeVisit => pc = "aborted" /\ tree = inp.before /\ commits = <<>>

\* the commit type the table gives for a label name, "" for a name outside it
TableType(l) ==
    CASE l \in {"feat"} -> "feat"
      [] l \in {"fix", "Fix", "bug", "BUG"} -> "fix"
      [] l \in {"refactor"} -> "refactor"
      [] l \in {"docs", "Docs"} -> "docs"
      [] l \in {"test"} -> "test"
      [] OTHER -> ""

Matching == SelectSeq(issue.labels, LAMBDA l : TableType(l) # "")

\* C25: every commit has the type the table gives for the ticket's labels,
\* whatever their case (of several labels of the table the last decides), and
\* chore when no label is in the table, when there is no label and when no
\* token for the tracker is set.
C25_CommitType ==
    \A i \in DOMAIN commits :
        commits[i].msg.type =
            IF ~env.GH_TOKEN.set \/ Matching = <<>>
            THEN "chore"
            ELSE TableType(Last(Matching))

C25_Witness ==
    /\ commits # <<>>
    /\ env.GH_TOKEN.set
    /\ issue.labels = <<"BUG">>
    /\ commits[1].msg.type = "fix"

\* text without its line feeds and carriage returns
Stripped(text) == SelectSeq(text, LAMBDA ch : ch \notin {"\n", "\r"})

\* text with a space for each line feed and carriage return
Spaced(text) == [i \in 1..Len(text) |-> IF text[i] \in {"\n", "\r"} THEN " " ELSE text[i]]

Cut(text) == SubSeq(text, 1, Min(SubjLen, Len(text)))

\* C26 as stated: every commit has the crate for scope and, for subject, the
\* first entry of plan with its line breaks taken out, cut to 50 characters.
C26_SubjectStripped ==
    \A i \in DOMAIN commits :
        /\ commits[i].msg.scope = state["crate"]
        /\ commits[i].msg.subj = Cut(Stripped(First(state["plan"])))

\* C26: every commit has the crate for scope and, for subject, the first
\* entry of plan with a space in place of each line feed and carriage
\* return, cut to 50 characters; the subject has no line break and at most
\* 50 characters.
C26_Subject ==
    \A i \in DOMAIN commits :
        /\ commits[i].msg.scope = state["crate"]
        /\ commits[i].msg.subj = Cut(Spaced(First(state["plan"])))
        /\ \A j \in DOMAIN commits[i].msg.subj : commits[i].msg.subj[j] \notin {"\n", "\r"}
        /\ Len(commits[i].msg.subj) <= SubjLen

C26_Witness ==
    /\ commits # <<>>
    /\ state["plan"] = JList(<<JStr(LongTask)>>)
    /\ Len(commits[1].msg.subj) = SubjLen
    /\ commits[1].msg.subj[3] = " "
    /\ commits[1].msg.subj[7] = " "
    /\ commits[1].msg.scope = "wrt-decoder"

\* C27: the side effects of a Coder visit with a diff that has content are,
\* in this order: one write or unlink for each file entry of the diff, in
\* the diff's order, then one staging, then at most one commit, which is
\* last.
C27_EffectOrder ==
    (inp.node = "code" /\ effects # <<>>) =>
        LET n == Len(Files)
        IN  /\ Len(effects) \in {n + 1, n + 2}
            /\ \A i \in 1..n :
                   effects[i] = Ev(IF Files[i].removed THEN "unlink" ELSE "write",
                                   Files[i].path)
            /\ effects[n + 1] = Ev("add", "")
            /\ Len(effects) = n + 2 => effects[n + 2] = Ev("commit", "")
            /\ \A i \in DOMAIN effects : effects[i].op = "commit" => i = Len(effects)

C27_Witness ==
    /\ inp.node = "code"
    /\ effects = <<Ev("unlink", "a.rs"), Ev("write", "b.rs"), Ev("add", ""), Ev("commit", "")>>
    /\ Len(commits) = 1

\* C28: when a Coder visit has applied a diff with content, applying the
\* same diff once more, as a revisit with the same completion does, leaves
\* the working tree as it is.
C28_RevisitIdempotent ==
    (inp.node = "code" /\ pc = "validate" /\ Strip(inp.diff) # <<>>) =>
        _apply(tree, inp.diff).tree = tree

AllRed == \A i \in DOMAIN greens : ~greens[i]

\* C29: as long as every Validator visit has yielded green = false the
\* Publisher has not been invoked and the run is not at END; unless a node
\* has failed the Engine stands in the loop, before Coder or Validator, and
\* Coder has been visited at least once per red Validator visit, however
\* many there have been.
C29_NoIterationBound ==
    AllRed =>
        /\ pc \notin {"pr", END}
        /\ Visits("pr") = 0
        /\ (pc # "aborted" /\ greens # <<>>) =>
              /\ pc \in {"code", "validate"}
              /\ Visits("code") >= Len(greens)
              /\ pc = "code" => Visits("code") = Len(greens)

C29_Witness ==
    /\ AllRed
    /\ Len(greens) = MaxIter
    /\ Visits("code") = MaxIter
    /\ pc = "code"

ValidatorKeys == {"green", "validate_passed", "validate_failed"}

\* C30: the Run State has none of green, validate_passed, validate_failed
\* (no Validator visit completed yet) or all three, and then green is true
\* exactly if validate_failed is empty.
C30_OutputsTogether ==
    /\ DOMAIN state \cap ValidatorKeys \in {{}, ValidatorKeys}
    /\ (DOMAIN state \cap ValidatorKeys = {}) = (greens = <<>>)
    /\ "green" \in DOMAIN state => (state["green"] = (state["validate_failed"] = <<>>))

C30_Witness ==
    /\ Visits("validate") = 2
    /\ greens = <<FALSE, TRUE>>
    /\ state["green"]
    /\ state["validate_failed"] = <<>>
    /\ state["validate_passed"] = <<"test">>
    /\ pc = "pr"

\* C31: the body of every request the Publisher writes has one row for each
\* of std_build, nostd_build, test and clippy, the row of a check shows the
\* pass glyph exactly if the check is in validate_passed, and the log section
\* holds validate_failed.
C31_StatusTable ==
    \A i \in DOMAIN ghCalls :
        LET b == ghCalls[i].body
        IN  /\ DOMAIN b.rows = {"std_build", "nostd_build", "test", "clippy"}
            /\ \A k \in DOMAIN b.rows :
                   b.rows[k] = (\E j \in DOMAIN state["validate_passed"] :
                                    state["validate_passed"][j] = k)
            /\ b.logs = state["validate_failed"]

C31_Witness ==
    /\ pc = END
    /\ Len(ghCalls) = 1
    /\ state["validate_passed"] = <<"std_build", "nostd_build">>
    /\ ghCalls[1].body.rows["std_build"]
    /\ ghCalls[1].body.rows["nostd_build"]
    /\ ~ghCalls[1].body.rows["test"]
    /\ ~ghCalls[1].body.rows["clippy"]
    /\ ghCalls[1].body.logs = <<>>

\* C32: with a profile in which no check has a command, once the Validator
\* has been visited both lists are empty and green is true, no log has been
\* written, Coder and Validator have been visited once each and the Engine
\* stands before the Publisher or beyond.
C32_NothingConfigured ==
    (WithCommand = {} /\ Visits("validate") > 0) =>
        /\ state["validate_passed"] = <<>>
        /\ state["validate_failed"] = <<>>
        /\ state["green"] = TRUE
        /\ logs = {}
        /\ Visits("code") = 1
        /\ Visits("validate") = 1
        /\ pc \in {"pr", END, "aborted"}
        /\ pc = "aborted" => Last(trace) = "pr"

C32_Witness ==
    /\ WithCommand = {}
    /\ "test" \in DOMAIN state
    /\ trace = <<"plan", "code", "validate", "pr">>
    /\ pc = END
    /\ state["green"]
    /\ logs = {}

\* Run States that agree with the present one on everything but the
\* Validator's outputs
Outcomes ==
    {<<>>, <<"test">>, <<"std_build", "clippy">>}

Variants ==
    {[k \in DOMAIN state \ ValidatorKeys |-> state[k]]}
    \cup {DictSpread(state, [k \in ValidatorKeys |->
                                CASE k = "green" -> g
                                  [] k = "validate_passed" -> p
                                  [] k = "validate_failed" -> f]) :
            g \in BOOLEAN, p \in Outcomes, f \in Outcomes}

\* C33: the request the Coder sends is made of plan and crate alone: for a
\* Run State with any other Validator outputs, or none, it is the same; all
\* requests of a run are equal, whatever the Validator yielded in between.
C33_RequestFromPlanAndCrate ==
    /\ Sends(state) => \A v \in Variants : Request(v) = Request(state)
    /\ \A i \in DOMAIN requests :
           /\ requests[i] = requests[1]
           /\ requests[i].crate = state["crate"]
           /\ requests[i].plan = JoinPlan(state["plan"])

C33_Witness ==
    /\ Len(requests) = 2
    /\ requests[1] = requests[2]
    /\ requests[1].plan = <<"a", "\n", "b", "\n", "c">>
    /\ requests[1].crate = "wrt-decoder"
    /\ greens = <<FALSE>>
    /\ state["validate_failed"] = <<"test">>
    /\ pc = "validate"

\* the working tree as the last commit has it
Committed == IF commits = <<>> THEN Tree0 ELSE Last(commits).tree

\* C34: after a Coder visit with a diff that has content, either the visit
\* has committed or the working tree and the index are what they were before
\* it, that is, what the last commit holds.
C34_AllOrNothing ==
    (inp.node = "code" /\ \E i \in DOMAIN inp.diff : inp.diff[i].k # "ws") =>
        \/ effects # <<>> /\ Last(effects).op = "commit"
        \/ tree = Committed /\ index = Committed

\* C35: a completed Coder visit adds one commit when its diff has content
\* and none when it has not; a visit of plan, validate or pr adds none.
C35_CommitPerVisit ==
    [][/\ (pc = "code" /\ pc' = "validate") =>
            Len(commits') = Len(commits) +
                (IF \E i \in DOMAIN inp'.diff : inp'.diff[i].k # "ws" THEN 1 ELSE 0)
       /\ pc # "code" => commits' = commits
       /\ SubSeq(commits', 1, Len(commits)) = commits]_vars

C35_Witness ==
    /\ Visits("code") = 3
    /\ Visits("validate") = 3
    /\ Len(commits) = 2
    /\ pc = END

\* C36: when several labels of the ticket are in the table the commit type
\* is the one of the last of them, whatever other labels come before, between
\* or after; a label outside the table does not bring chore back.
C36_LastLabelWins ==
    \A i \in DOMAIN commits :
        (env.GH_TOKEN.set /\ Len(Matching) >= 1) =>
            /\ commits[i].msg.type = TableType(Matching[Len(Matching)])
            /\ commits[i].msg.type # "chore"
            /\ Len(Matching) > 1 =>
                  (commits[i].msg.type = TableType(Matching[1])
                        => TableType(Matching[1]) = TableType(Matching[Len(Matching)]))

C36_Witness ==
    /\ Len(commits) = 2
    /\ env.GH_TOKEN.set
    /\ issue.labels = <<"refactor", "wontfix">>
    /\ commits[1].msg.type = "refactor"
    /\ commits[2].msg.type = "refactor"

====
